---- MODULE Spec2Model ----
(***************************************************************************)
(* Model of the live voice session of server/index.ts: the WebSocket      *)
(* server's connection, message and close handlers, the registry          *)
(* activeConnections, the per-connection conversationHistory, the armed   *)
(* state of the keep-alive timer and the temporary files of the uploads   *)
(* directory.                                                             *)
(*                                                                         *)
(* The message handler is an async function: every `await` is a point at  *)
(* which the event loop may run any other handler.  One pipeline run is   *)
(* therefore a sequence of steps, one action per resumption:              *)
(*   OnMessage      lines 142-157  (up to the await of convertWebmToWav)  *)
(*   TranscodeDone  lines 157-167  (up to the await of transcriptions)    *)
(*   TranscribeDone lines 160-184  (up to the await of chat.completions)  *)
(*   ChatDone       lines 177-198  (up to the await of audio.speech)      *)
(*   SpeechDone     lines 192-202  (the two awaits of the speech reply,   *)
(*                                  between which no state is touched)    *)
(* and every rejected await or throwing call continues in the catch       *)
(* block of lines 204-212.                                                *)
(***************************************************************************)
EXTENDS Integers, Sequences, FiniteSets, TLC

\* ---------------------------------------------------------------- bounds
MaxConns == 2
MaxRuns == 2
MaxInFlight == 2
MaxClock == 1
MaxRequests == 2
MaxPings == 2
MaxSockets == 3
MaxChunks == 2

Conns == 1..MaxConns
Stamps == 0..MaxClock

\* ------------------------------------------------- values of the engines
\* the prompt of lines 60-89, by its first words
SYSTEM_PROMPT == "You are an expert computer parts sales agent"
Fallback == "I apologize, but I could not generate a response."
ErrorText == "Error processing audio."

\* The engines are external: what they return is an input of the model.  A
\* repertoire fixes, for one behaviour, the transcripts speech-to-text may
\* return (response_format 'text': plain strings) and the values
\* choices[0].message.content may take; whether a call resolves or rejects
\* is chosen anew at every call.
Repertoires ==
    {[transcripts |-> {""}, contents |-> {""}],
     [transcripts |-> {"what graphics card"}, contents |-> {"an RTX 4060"}]}
\* Error.message of a rejected engine call: the client library reports a
\* network failure with the same text whatever the endpoint
EngineErrors == {"Connection error."}
\* Error.message of a failed fs.writeFileSync, of a failed ffmpeg run and of
\* fs.unlinkSync on a path that does not exist
WriteErrors == {"ENOSPC: no space left on device"}
TranscodeErrors == {"ffmpeg exited with code 1"}
UnlinkError == "ENOENT: no such file or directory"
SendError == "WebSocket is not open"

VARIABLES
    clock,              \* Date.now()
    connState,          \* per connection: "new", "open" (readyState OPEN),
                        \* "closing" (after 'error', before 'close'), "closed"
    connectionId,       \* per connection: the const connectionId of its closure
    activeConnections,  \* the Map: connectionId -> connection
    conversationHistory,\* per connection: the array of turns of its closure
    pingInterval,       \* per connection: TRUE while the interval timer is armed
    outbox,             \* per connection: messages delivered to the client
    files,              \* uploads directory: path -> chunk whose audio it holds
    runs,               \* the invocations of the message handler, in arrival order
    engines,            \* the repertoire of the engines in this behaviour
    crashed,            \* the process died of an uncaught exception
    requests,           \* the POST /api/voice requests, in arrival order
    pings,              \* per connection: ws.readyState at each ws.ping() call
    hasGlobalWebSocket, \* the runtime defines a global WebSocket (Node 22 and later)
    client              \* the page of App.tsx: its state, refs and sockets

vars == <<clock, connState, connectionId, activeConnections, conversationHistory,
          pingInterval, outbox, files, runs, engines, crashed, requests,
          pings, hasGlobalWebSocket, client>>

\* ------------------------------------------------------------ messages
\* JSON.stringify({ type: 'connection', status: 'connected' })
ConnectedMsg == [type |-> "connection", text |-> "connected", details |-> ""]
\* JSON.stringify({ type: 'error', error: ..., details: error.message })
ErrorMsg(details) == [type |-> "error", text |-> ErrorText, details |-> details]
\* the mp3 buffer of the speech reply, sent as one binary message
AudioMsg == [type |-> "binary", text |-> "", details |-> ""]

\* ------------------------------------------------------------ turns
\* { role, content }; `run` records which handler invocation pushed the turn
\* (0: the initial value of the array)
Turn(role, content, r) == [role |-> role, content |-> content, run |-> r]
SystemTurn == Turn("system", SYSTEM_PROMPT, 0)

\* ------------------------------------------------------------ temp files
WebmPath(stamp) == <<"webm", stamp>>
WavPath(stamp) == <<"wav", stamp>>
Paths == {WebmPath(t) : t \in Stamps} \cup {WavPath(t) : t \in Stamps}
Exists(path) == path \in DOMAIN files
WriteFile(fs, path, chunk) == [p \in (DOMAIN fs) \cup {path} |-> IF p = path THEN chunk ELSE fs[p]]
Unlink(fs, path) == [p \in (DOMAIN fs) \ {path} |-> fs[p]]

\* ------------------------------------------------------------ the channel
IsOpen(c) == connState[c] = "open"

\* variants of ws.send: one that throws on a socket that is not open (as the
\* library did before it queued such sends away), one that always throws
SendThrowsWhenClosed(c) == ~IsOpen(c)
SendThrowsAlways(c) == TRUE

\* ws.send without a callback throws only while CONNECTING, a state a
\* server-side socket is never in; on a closing or closed socket it returns
\* without sending
SendThrows(c) == FALSE

\* variant of ws.send that writes the message twice
WsSendTwice(c, msg) == IF IsOpen(c) THEN Append(Append(outbox[c], msg), msg) ELSE outbox[c]

\* what the client has received after ws.send(msg) on connection c
WsSend(c, msg) == IF IsOpen(c) THEN Append(outbox[c], msg) ELSE outbox[c]

\* ------------------------------------------------------------ the runs
\* One record per invocation of the message handler.  conn, webm, wav, text
\* are the handler's closure and locals; the other fields record what the
\* invocation has done so far (calls made, messages passed to ws.send, the
\* messages of those that reached the client, the array as it was when the
\* invocation started, whether a failed invocation on the same connection had
\* returned by then).  messages is the `messages` argument of the chat call,
\* reply the content it returned, input the `input` argument of the speech
\* call.
RunIds == 1..Len(runs)
InFlight(r) == runs[r].pc # "done"
RunsOf(c) == {r \in RunIds : runs[r].conn = c}

NewRun(c, stamp, frame) ==
    [conn |-> c, frame |-> frame, pc |-> "transcode", webm |-> stamp, wav |-> stamp,
     heard |-> 0, text |-> "", messages |-> <<>>, reply |-> "", input |-> "",
     failedAt |-> "none",
     sends |-> 0, delivered |-> <<>>, chatCalls |-> 0, speechCalls |-> 0,
     histAtStart |-> conversationHistory[c], openAtEmit |-> FALSE,
     afterFailure |-> \E q \in RunsOf(c) : runs[q].pc = "done" /\ runs[q].failedAt # "none"]

\* the handler returns: its locals are gone, what it did remains
Returned(run, step) ==
    [run EXCEPT !.pc = "done", !.failedAt = step, !.webm = 0, !.wav = 0,
                !.heard = 0, !.text = "", !.messages = <<>>, !.reply = "",
                !.input = "", !.histAtStart = <<>>]

\* variant of the catch block that takes back the turns of the failed run
RollBackInCatch(c, r) == SelectSeq(conversationHistory[c], LAMBDA t : t.run # r)

\* the catch block keeps the array as it is
HistoryInCatch(c, r) == conversationHistory[c]

\* the catch block of lines 204-212, entered by run r from step `step` with
\* error.message = details; rs is the sequence of runs at the throw
Catch(rs, r, step, details) ==
    LET c == rs[r].conn
        msg == ErrorMsg(details)
    IN /\ conversationHistory' = [conversationHistory EXCEPT ![c] = HistoryInCatch(c, r)]
       /\ IF SendThrows(c)
          THEN \* ws.send throws inside the catch block: unhandled rejection
               /\ crashed' = TRUE
               /\ outbox' = outbox
               /\ runs' = [rs EXCEPT ![r] =
                      [Returned(@, step) EXCEPT !.sends = @ + 1,
                                                !.openAtEmit = IsOpen(c)]]
          ELSE /\ crashed' = crashed
               /\ outbox' = [outbox EXCEPT ![c] = WsSend(c, msg)]
               /\ runs' = [rs EXCEPT ![r] =
                      [Returned(@, step) EXCEPT
                           !.sends = @ + 1,
                           !.delivered = IF IsOpen(c) THEN Append(@, msg) ELSE @,
                           !.openAtEmit = IsOpen(c)]]

\* ------------------------------------------------------------ Init
\* the state once the module has been evaluated, on a runtime that has
\* (g = TRUE) or does not have a global WebSocket
Boot(g) ==
    /\ clock = 0
    /\ connState = [c \in Conns |-> "new"]
    /\ connectionId = [c \in Conns |-> 0]
    /\ activeConnections = << >>
    /\ conversationHistory = [c \in Conns |-> <<>>]
    /\ pingInterval = [c \in Conns |-> FALSE]
    /\ outbox = [c \in Conns |-> <<>>]
    /\ files = << >>
    /\ runs = <<>>
    /\ engines \in Repertoires
    /\ crashed = FALSE
    /\ requests = <<>>
    /\ pings = [c \in Conns |-> <<>>]
    /\ hasGlobalWebSocket = g
    /\ client = [isLiveCall |-> FALSE, wsRef |-> 0, sockets |-> <<>>,
                 awaiting |-> 0, timer |-> 0, recording |-> FALSE, sent |-> <<>>]

\* the global WebSocket is read by the interval callback alone
Init == Boot(TRUE)
InitPing == \E g \in BOOLEAN : Boot(g)

\* ------------------------------------------------------------ actions
\* a millisecond passes
Tick ==
    /\ ~crashed
    /\ clock < MaxClock
    /\ clock' = clock + 1
    /\ UNCHANGED <<requests, pings, hasGlobalWebSocket, client, connState, connectionId, activeConnections, conversationHistory,
                   pingInterval, outbox, files, runs, engines, crashed>>

\* variant of the connection handler that does not write the Map
RegistryForget(id, c) == activeConnections

\* activeConnections.set(connectionId, ws)
RegistrySet(id, c) == [k \in (DOMAIN activeConnections) \cup {id} |->
                          IF k = id THEN c ELSE activeConnections[k]]
\* variant of the close handler that leaves the entry in the Map
RegistryKeep(id) == activeConnections

\* activeConnections.delete(connectionId)
RegistryDelete(id) == [k \in (DOMAIN activeConnections) \ {id} |-> activeConnections[k]]

\* variant with one module-level array that every connection reinitialises
ResetAllHistories(c) == [k \in Conns |-> <<SystemTurn>>]

\* let conversationHistory = [{ role: 'system', content: SYSTEM_PROMPT }]
NewHistory(c) == [conversationHistory EXCEPT ![c] = <<SystemTurn>>]

\* wss.on('connection')
OnConnection(c) ==
    /\ ~crashed
    /\ connState[c] = "new"
    /\ connState' = [connState EXCEPT ![c] = "open"]
    /\ connectionId' = [connectionId EXCEPT ![c] = clock]
    /\ activeConnections' = RegistrySet(clock, c)
    /\ conversationHistory' = NewHistory(c)
    /\ outbox' = [outbox EXCEPT ![c] = Append(@, ConnectedMsg)]
    /\ pingInterval' = [pingInterval EXCEPT ![c] = TRUE]
    /\ UNCHANGED <<requests, pings, hasGlobalWebSocket, client, clock, files, runs, engines, crashed>>

\* variant of the close handler that leaves the timer armed
KeepInterval(c) == pingInterval

\* clearInterval(pingInterval)
ClearInterval(c) == [pingInterval EXCEPT ![c] = FALSE]

\* ws.on('close')
OnClose(c) ==
    /\ ~crashed
    /\ connState[c] \in {"open", "closing"}
    /\ connState' = [connState EXCEPT ![c] = "closed"]
    /\ pingInterval' = ClearInterval(c)
    /\ activeConnections' = RegistryDelete(connectionId[c])
    /\ UNCHANGED <<requests, pings, hasGlobalWebSocket, client, clock, connectionId, conversationHistory, outbox, files,
                   runs, engines, crashed>>

\* ws.on('error'), lines 215-217: the handler logs.  ws emits 'error' on an
\* established connection when the receiver meets an invalid frame or the
\* sender fails; it has then already started the closing handshake
\* (readyState CLOSING) and emits 'close' once the socket is gone.
OnError(c) ==
    /\ ~crashed
    /\ connState[c] = "open"
    /\ connState' = [connState EXCEPT ![c] = "closing"]
    /\ UNCHANGED <<requests, pings, hasGlobalWebSocket, client, clock, connectionId, activeConnections, conversationHistory,
                   pingInterval, outbox, files, runs, engines, crashed>>

\* the 'close' event that ws emits after an 'error' event
CloseAfterError(c) == connState[c] = "closing" /\ OnClose(c)

\* What a client can put in one WebSocket message: a binary frame holding
\* recorded audio, a binary frame of zero bytes, a text frame (JSON).
Frames == {"audio", "empty", "text"}

\* `message instanceof Buffer`, line 144.  The ws 8 receiver hands every
\* message to the 'message' listeners as a Buffer (binaryType 'nodebuffer'),
\* a text frame too: the second listener argument isBinary tells them apart
\* and the handler does not take it.
IsBuffer(frame) == TRUE

\* ffmpeg can read the file: it holds recorded audio
Decodable(frame) == frame = "audio"

\* ws.on('message'), lines 142-157, for one message of kind `frame` on c
Receive(c, frame) ==
    /\ ~crashed
    /\ IsOpen(c)
    /\ Len(runs) < MaxRuns
    /\ Cardinality({q \in RunIds : InFlight(q)}) < MaxInFlight
    /\ IF ~IsBuffer(frame)
       THEN \* line 145-146: logged, return
            UNCHANGED <<files, runs, conversationHistory, outbox, crashed>>
       ELSE LET r == Len(runs) + 1
                rs == Append(runs, NewRun(c, clock, frame))
            IN \/ \* fs.writeFileSync succeeds, convertWebmToWav is awaited
                  /\ files' = WriteFile(files, WebmPath(clock), r)
                  /\ runs' = rs
                  /\ UNCHANGED <<conversationHistory, outbox, crashed>>
               \/ \* fs.writeFileSync throws
                  /\ files' = files
                  /\ \E d \in WriteErrors : Catch(rs, r, "write", d)
    /\ UNCHANGED <<requests, pings, hasGlobalWebSocket, client, clock, connState, connectionId, activeConnections, pingInterval, engines>>

\* ws.on('message'), lines 142-157: a binary chunk of recorded audio arrives
\* on connection c
OnMessage(c) == Receive(c, "audio")

\* ws.on('message') for any message a client can send
OnFrame(c) == \E frame \in Frames : Receive(c, frame)

\* convertWebmToWav settles, lines 157-167
TranscodeDone(r) ==
    /\ ~crashed
    /\ r \in RunIds
    /\ runs[r].pc = "transcode"
    /\ LET run == runs[r]
       IN \/ \* ffmpeg 'end': the wav holds the audio of the webm it read;
             \* fs.createReadStream(wavPath) and the transcription call follow
             /\ Exists(WebmPath(run.webm))
             /\ Decodable(runs[files[WebmPath(run.webm)]].frame)
             /\ files' = WriteFile(files, WavPath(run.wav), files[WebmPath(run.webm)])
             /\ runs' = [runs EXCEPT ![r] =
                    [@ EXCEPT !.pc = "transcribe", !.heard = files[WebmPath(run.webm)]]]
             /\ UNCHANGED <<conversationHistory, outbox, crashed>>
          \/ \* ffmpeg 'error'
             /\ files' = files
             /\ \E d \in TranscodeErrors : Catch(runs, r, "transcode", d)
    /\ UNCHANGED <<requests, pings, hasGlobalWebSocket, client, clock, connState, connectionId, activeConnections, pingInterval, engines>>

\* variant that puts the user turn at the front of the array (unshift)
UnshiftUser(c, r, text) == <<Turn("user", text, r)>> \o conversationHistory[c]

\* variant that pushes the user turn twice
PushUserTwice(c, r, text) ==
    Append(Append(conversationHistory[c], Turn("user", text, r)), Turn("user", text, r))

\* conversationHistory.push({ role: 'user', content: transcription })
PushUser(c, r, text) == Append(conversationHistory[c], Turn("user", text, r))

\* variant of the chat call that sends the last turn only
LastTurnOnly(h) == <<h[Len(h)]>>

\* messages: conversationHistory, line 179
ChatMessages(h) == h

\* openai.audio.transcriptions.create settles, lines 160-184
TranscribeDone(r) ==
    /\ ~crashed
    /\ r \in RunIds
    /\ runs[r].pc = "transcribe"
    /\ LET run == runs[r]
           c == run.conn
           webm == WebmPath(run.webm)
           wav == WavPath(run.wav)
       IN \/ \* resolved with the transcript
             \E text \in engines.transcripts :
               IF ~Exists(webm)
               THEN \* fs.unlinkSync(webmPath) throws
                    /\ files' = files
                    /\ Catch(runs, r, "cleanup", UnlinkError)
               ELSE IF ~Exists(wav)
               THEN \* fs.unlinkSync(wavPath) throws
                    /\ files' = Unlink(files, webm)
                    /\ Catch(runs, r, "cleanup", UnlinkError)
               ELSE /\ files' = Unlink(Unlink(files, webm), wav)
                    /\ conversationHistory' =
                           [conversationHistory EXCEPT ![c] = PushUser(c, r, text)]
                    /\ runs' = [runs EXCEPT ![r] =
                           [@ EXCEPT !.pc = "chat", !.text = text, !.chatCalls = @ + 1,
                                     !.messages = ChatMessages(PushUser(c, r, text))]]
                    /\ UNCHANGED <<outbox, crashed>>
          \/ \* rejected
             /\ files' = files
             /\ \E d \in EngineErrors : Catch(runs, r, "transcribe", d)
    /\ UNCHANGED <<requests, pings, hasGlobalWebSocket, client, clock, connState, connectionId, activeConnections, pingInterval, engines>>

\* variant without the fallback
AiResponseRaw(content) == content

\* chatResponse.choices[0].message.content || '...'
AiResponse(content) == IF content = "" THEN Fallback ELSE content

\* conversationHistory.push({ role: 'assistant', content: aiResponse })
PushAssistant(c, r, content) ==
    Append(conversationHistory[c], Turn("assistant", AiResponse(content), r))

\* openai.chat.completions.create settles, lines 177-198
ChatDone(r) ==
    /\ ~crashed
    /\ r \in RunIds
    /\ runs[r].pc = "chat"
    /\ LET c == runs[r].conn
       IN \/ \E content \in engines.contents :
               /\ conversationHistory' =
                      [conversationHistory EXCEPT ![c] = PushAssistant(c, r, content)]
               /\ runs' = [runs EXCEPT ![r] =
                      [@ EXCEPT !.pc = "speech", !.speechCalls = @ + 1,
                                !.reply = content, !.input = AiResponse(content)]]
               /\ UNCHANGED <<outbox, crashed>>
          \/ \E d \in EngineErrors : Catch(runs, r, "chat", d)
    /\ UNCHANGED <<requests, pings, hasGlobalWebSocket, client, clock, connState, connectionId, activeConnections, pingInterval,
                   files, engines>>

\* openai.audio.speech.create and speechResponse.arrayBuffer() settle,
\* lines 192-202
SpeechDone(r) ==
    /\ ~crashed
    /\ r \in RunIds
    /\ runs[r].pc = "speech"
    /\ LET c == runs[r].conn
       IN \/ \* resolved: ws.send(buffer)
             IF SendThrows(c)
             THEN Catch([runs EXCEPT ![r].sends = @ + 1], r, "send", SendError)
             ELSE /\ outbox' = [outbox EXCEPT ![c] = WsSend(c, AudioMsg)]
                  /\ runs' = [runs EXCEPT ![r] =
                         [Returned(@, "none") EXCEPT
                              !.sends = @ + 1,
                              !.delivered = IF IsOpen(c) THEN Append(@, AudioMsg) ELSE @,
                              !.openAtEmit = IsOpen(c)]]
                  /\ UNCHANGED <<conversationHistory, crashed>>
          \/ \* rejected
             \E d \in EngineErrors : Catch(runs, r, "speech", d)
    /\ UNCHANGED <<requests, pings, hasGlobalWebSocket, client, clock, connState, connectionId, activeConnections, pingInterval,
                   files, engines>>

Next ==
    \/ Tick
    \/ \E c \in Conns : OnConnection(c)
    \/ \E c \in Conns : OnClose(c)
    \/ \E c \in Conns : OnMessage(c)
    \/ \E r \in 1..MaxRuns : TranscodeDone(r)
    \/ \E r \in 1..MaxRuns : TranscribeDone(r)
    \/ \E r \in 1..MaxRuns : ChatDone(r)
    \/ \E r \in 1..MaxRuns : SpeechDone(r)

\* the server with clients that send any kind of message
NextFrames ==
    \/ Tick
    \/ \E c \in Conns : OnConnection(c)
    \/ \E c \in Conns : OnClose(c)
    \/ \E c \in Conns : OnFrame(c)
    \/ \E r \in 1..MaxRuns : TranscodeDone(r)
    \/ \E r \in 1..MaxRuns : TranscribeDone(r)
    \/ \E r \in 1..MaxRuns : ChatDone(r)
    \/ \E r \in 1..MaxRuns : SpeechDone(r)

Spec == Init /\ [][Next]_vars
SpecFrames == Init /\ [][NextFrames]_vars

\* the server with connections that may fail: every 'error' event is
\* followed by the 'close' event of the same connection
NextErrors ==
    \/ Tick
    \/ \E c \in Conns : OnConnection(c)
    \/ \E c \in Conns : OnError(c)
    \/ \E c \in Conns : OnClose(c)
    \/ \E c \in Conns : OnMessage(c)
    \/ \E r \in 1..MaxRuns : TranscodeDone(r)
    \/ \E r \in 1..MaxRuns : TranscribeDone(r)
    \/ \E r \in 1..MaxRuns : ChatDone(r)
    \/ \E r \in 1..MaxRuns : SpeechDone(r)
SpecErrors ==
    Init /\ [][NextErrors]_vars /\ \A c \in Conns : WF_vars(CloseAfterError(c))

\* ------------------------------------------------------ the ping interval
\* variant of the interval callback that pings whatever the readyState
PingUnguarded(c) == TRUE

\* ws.readyState === WebSocket.OPEN, line 133
PingGuard(c) == IsOpen(c)

\* the setInterval callback of lines 132-136 runs for connection c.  The file
\* imports WebSocketServer only: `WebSocket` is the global of the runtime, and
\* where there is none the callback throws a ReferenceError that nothing
\* catches.
PingTick(c) ==
    /\ ~crashed
    /\ pingInterval[c]
    /\ Len(pings[c]) < MaxPings
    /\ IF ~hasGlobalWebSocket
       THEN crashed' = TRUE /\ pings' = pings
       ELSE /\ crashed' = crashed
            /\ pings' = IF PingGuard(c)
                        THEN [pings EXCEPT ![c] = Append(@, connState[c])]
                        ELSE pings
    /\ UNCHANGED <<clock, connState, connectionId, activeConnections,
                   conversationHistory, pingInterval, outbox, files, runs, engines,
                   requests, hasGlobalWebSocket, client>>

\* the connections and their timers, without messages
NextPing ==
    \/ Tick
    \/ \E c \in Conns : OnConnection(c)
    \/ \E c \in Conns : OnError(c)
    \/ \E c \in Conns : OnClose(c)
    \/ \E c \in Conns : PingTick(c)
SpecPing == InitPing /\ [][NextPing]_vars

\* ------------------------------------------------------ the page (App.tsx)
\* client.isLiveCall is the React state, client.wsRef the socket wsRef.current
\* points at (0: null), client.sockets the WebSockets the page has created:
\* state, kind ("test": made by initWebSocket, "live": made by
\* connectWebSocket) and, for a live socket, the value of isLiveCall in the
\* closure its handlers were created in.  client.awaiting is the socket
\* startLiveCall awaits, client.timer the socket whose onclose armed the
\* reconnect timeout (0: none), client.recording the MediaRecorder of the
\* call, client.sent the sockets the chunks went out on.
serverVars == <<clock, connState, connectionId, activeConnections, conversationHistory,
                pingInterval, outbox, files, runs, engines, crashed, requests,
                pings, hasGlobalWebSocket>>

SocketIds == 1..Len(client.sockets)
SocketOpen(cl, s) == s # 0 /\ cl.sockets[s].state = "open"

\* new WebSocket("ws://localhost:8080") with the handlers of lines 197-252,
\* created in a closure whose isLiveCall is `captured`
ConnectWebSocket(cl, captured) ==
    [cl EXCEPT !.sockets = Append(@, [state |-> "connecting", kind |-> "live",
                                      isLiveCall |-> captured])]

\* socket s closes: ws.onclose, lines 239-252 (live) or 74-77 (test)
OnCloseEvent(cl, s) ==
    [cl EXCEPT !.sockets[s].state = "closed",
               !.timer = IF cl.sockets[s].kind = "live" /\ cl.sockets[s].isLiveCall
                         THEN s ELSE @]

\* the "Test WebSocket" button: initWebSocket, lines 46-78
InitWebSocket ==
    /\ ~SocketOpen(client, client.wsRef)
    /\ Len(client.sockets) < MaxSockets
    /\ client' = [client EXCEPT
           !.sockets = Append(@, [state |-> "connecting", kind |-> "test",
                                  isLiveCall |-> FALSE]),
           !.wsRef = Len(client.sockets) + 1]
    /\ UNCHANGED serverVars

\* the "Start Live Call" button, shown while isLiveCall is false: startLiveCall
\* up to `await connectWebSocket()`, or to its end when wsRef is open already
\* (lines 164-277); the microphone is granted
StartLiveCall ==
    /\ ~client.isLiveCall
    /\ client.awaiting = 0
    /\ ~client.recording
    /\ IF SocketOpen(client, client.wsRef)
       THEN client' = [client EXCEPT !.recording = TRUE, !.isLiveCall = TRUE]
       ELSE /\ Len(client.sockets) < MaxSockets
            /\ client' = [ConnectWebSocket(client, client.isLiveCall) EXCEPT
                              !.awaiting = Len(client.sockets) + 1]
    /\ UNCHANGED serverVars

\* the server accepts socket s: ws.onopen (lines 198-205, or 51-54), and
\* startLiveCall goes on after its await (lines 258-277)
WsOpen(s) ==
    /\ s \in SocketIds
    /\ client.sockets[s].state = "connecting"
    /\ LET opened == [client EXCEPT !.sockets[s].state = "open"]
       IN client' =
            IF client.sockets[s].kind = "test"
            THEN opened
            ELSE [opened EXCEPT !.wsRef = s, !.isLiveCall = TRUE,
                     !.recording = IF client.awaiting = s THEN TRUE ELSE @,
                     !.awaiting = IF client.awaiting = s THEN 0 ELSE @]
    /\ UNCHANGED serverVars

\* the connection of socket s drops (the server closes it, the network fails)
Drop(s) ==
    /\ s \in SocketIds
    /\ client.sockets[s].state = "open"
    /\ client' = OnCloseEvent(client, s)
    /\ UNCHANGED serverVars

\* mediaRecorder.ondataavailable, lines 267-272: a chunk of the 500 ms
\* timeslice, not empty
DataAvailable ==
    /\ client.recording
    /\ Len(client.sent) < MaxChunks
    /\ client' = IF SocketOpen(client, client.wsRef)
                 THEN [client EXCEPT !.sent = Append(@, client.wsRef)]
                 ELSE client

\* the setTimeout callback of lines 244-249
ReconnectTimeout ==
    /\ client.timer # 0
    /\ Len(client.sockets) < MaxSockets
    /\ client' = IF client.sockets[client.timer].isLiveCall
                 THEN [ConnectWebSocket(client, client.sockets[client.timer].isLiveCall)
                          EXCEPT !.timer = 0]
                 ELSE [client EXCEPT !.timer = 0]

\* a timer of the page fires: the recorder's timeslice or the reconnect timeout
Timers == {"timeslice", "reconnect"}
BrowserTimer(t) ==
    /\ IF t = "timeslice" THEN DataAvailable ELSE ReconnectTimeout
    /\ UNCHANGED serverVars

\* the "End Call" button, shown while isLiveCall is true: endLiveCall, lines
\* 292-303
EndLiveCall ==
    /\ client.isLiveCall
    /\ LET closed == IF client.wsRef # 0 /\ client.sockets[client.wsRef].state # "closed"
                     THEN OnCloseEvent(client, client.wsRef)
                     ELSE client
       IN client' = [closed EXCEPT !.recording = FALSE, !.isLiveCall = FALSE]
    /\ UNCHANGED serverVars

NextClient ==
    \/ InitWebSocket
    \/ StartLiveCall
    \/ \E s \in 1..MaxSockets : WsOpen(s)
    \/ \E s \in 1..MaxSockets : Drop(s)
    \/ \E t \in Timers : BrowserTimer(t)
    \/ EndLiveCall
\* the browser runs the callbacks it has scheduled and the server accepts the
\* connections it is offered; the buttons and the drops are free
SpecClient ==
    /\ Init
    /\ [][NextClient]_vars
    /\ WF_vars(\E t \in Timers : BrowserTimer(t))
    /\ WF_vars(\E s \in 1..MaxSockets : WsOpen(s))

\* ------------------------------------------------------ POST /api/voice
\* what the WebSocket handlers own
wsVars == <<connState, connectionId, activeConnections, conversationHistory,
            pingInterval, outbox, runs, pings, hasGlobalWebSocket>>

VoiceFallback == "Sorry, I could not process that."
\* path.extname(file.originalname) of the uploads
Exts == {".webm", ".wav"}
\* multer's filename callback: `${Date.now()}${ext}` in uploads/
UploadPath(stamp, ext) == <<ext, stamp>>

\* res.status(400).json(...), res.status(500).json(...), res.set + res.send
NoFileResponse == [status |-> 400, type |-> "application/json", body |-> "No audio file uploaded."]
ErrorResponse == [status |-> 500, type |-> "application/json", body |-> ErrorText]
AudioResponse == [status |-> 200, type |-> "audio/mpeg", body |-> "mp3"]

RequestIds == 1..Len(requests)
\* req.file is set; req.file.path is the path multer stored the upload at
HasFile(q) == requests[q].path # <<>>

\* a request arrives, lines 242-252: upload.single('audio') has stored the
\* file, if the form has one, and the handler runs up to its first await
PostVoice(hasFile, ext) ==
    /\ ~crashed
    /\ Len(requests) < MaxRequests
    /\ LET q == Len(requests) + 1
           path == IF hasFile THEN UploadPath(clock, ext) ELSE <<>>
           req == [path |-> path, pc |-> "transcribe", text |-> "", content |-> "",
                   resolved |-> 0, rejected |-> FALSE, calls |-> 0, responses |-> <<>>]
       IN IF ~hasFile
          THEN /\ requests' = Append(requests,
                      [req EXCEPT !.pc = "done", !.responses = <<NoFileResponse>>])
               /\ files' = files
          ELSE /\ requests' = Append(requests, [req EXCEPT !.calls = 1])
               /\ files' = WriteFile(files, path, q)
    /\ UNCHANGED <<clock, engines, crashed, wsVars, client>>

\* openai.audio.transcriptions.create settles, lines 249-263
VoiceTranscribeDone(q) ==
    /\ ~crashed
    /\ q \in RequestIds
    /\ requests[q].pc = "transcribe"
    /\ \/ \E t \in engines.transcripts :
             requests' = [requests EXCEPT ![q] =
                 [@ EXCEPT !.pc = "chat", !.text = t, !.resolved = @ + 1, !.calls = @ + 1]]
       \/ requests' = [requests EXCEPT ![q] =
              [@ EXCEPT !.pc = "done", !.rejected = TRUE,
                        !.responses = Append(@, ErrorResponse)]]
    /\ UNCHANGED <<clock, files, engines, crashed, wsVars, client>>

\* openai.chat.completions.create settles, lines 255-270
VoiceChatDone(q) ==
    /\ ~crashed
    /\ q \in RequestIds
    /\ requests[q].pc = "chat"
    /\ \/ \E m \in engines.contents :
             requests' = [requests EXCEPT ![q] =
                 [@ EXCEPT !.pc = "speech", !.resolved = @ + 1, !.calls = @ + 1,
                           !.content = IF m = "" THEN VoiceFallback ELSE m]]
       \/ requests' = [requests EXCEPT ![q] =
              [@ EXCEPT !.pc = "done", !.rejected = TRUE,
                        !.responses = Append(@, ErrorResponse)]]
    /\ UNCHANGED <<clock, files, engines, crashed, wsVars, client>>

\* openai.audio.speech.create settles, lines 266-290
VoiceSpeechDone(q) ==
    /\ ~crashed
    /\ q \in RequestIds
    /\ requests[q].pc = "speech"
    /\ \/ \* resolved: fs.unlinkSync(req.file.path), then the audio is sent
          IF Exists(requests[q].path)
          THEN /\ files' = Unlink(files, requests[q].path)
               /\ requests' = [requests EXCEPT ![q] =
                      [@ EXCEPT !.pc = "done", !.resolved = @ + 1,
                                !.responses = Append(@, AudioResponse)]]
          ELSE \* unlinkSync throws ENOENT: the catch block answers
               /\ files' = files
               /\ requests' = [requests EXCEPT ![q] =
                      [@ EXCEPT !.pc = "done", !.resolved = @ + 1,
                                !.responses = Append(@, ErrorResponse)]]
       \/ \* rejected
          /\ files' = files
          /\ requests' = [requests EXCEPT ![q] =
                 [@ EXCEPT !.pc = "done", !.rejected = TRUE,
                           !.responses = Append(@, ErrorResponse)]]
    /\ UNCHANGED <<clock, engines, crashed, wsVars, client>>

NextVoice ==
    \/ Tick
    \/ \E hasFile \in BOOLEAN, ext \in Exts : PostVoice(hasFile, ext)
    \/ \E q \in 1..MaxRequests : VoiceTranscribeDone(q)
    \/ \E q \in 1..MaxRequests : VoiceChatDone(q)
    \/ \E q \in 1..MaxRequests : VoiceSpeechDone(q)
SpecVoice == Init /\ [][NextVoice]_vars

\* ============================================================ properties
Done(r) == runs[r].pc = "done"
Failed(r) == Done(r) /\ runs[r].failedAt # "none"
Succeeded(r) == Done(r) /\ runs[r].failedAt = "none"
\* positions in the history of c of the turns of role `role` pushed by run r
TurnsBy(c, r, role) ==
    {i \in 1..Len(conversationHistory[c]) :
        conversationHistory[c][i].run = r /\ conversationHistory[c][i].role = role}
\* run r returns in this step from step `step` ("none": past the final send)
Returns(r, step) ==
    /\ r \in 1..Len(runs')
    /\ (r \in RunIds => InFlight(r))
    /\ runs'[r].pc = "done"
    /\ runs'[r].failedAt = step
FailureSteps == {"write", "transcode", "transcribe", "cleanup", "chat", "speech", "send"}
\* an empty or whitespace-only transcript
IsBlank(text) == text \in {"", " ", "  "}

\* C1: in every reachable state at most one pipeline run per session is
\* between its start and its final emit.
C1_OneRunInFlight ==
    \A c \in Conns : Cardinality({r \in RunsOf(c) : InFlight(r)}) <= 1

\* C2: once all N runs of a session have succeeded and emitted their reply,
\* its history has exactly 1 + 2N turns: the system turn, then user and
\* assistant turns that strictly alternate, in the order of the chunks.
C2_HistoryAfterNReplies ==
    \A c \in Conns :
        LET h == conversationHistory[c]
            N == Cardinality(RunsOf(c))
        IN (N >= 1 /\ \A r \in RunsOf(c) : Succeeded(r)) =>
             /\ Len(h) = 1 + 2 * N
             /\ h[1] = SystemTurn
             /\ \A i \in 2..Len(h) :
                    h[i].role = IF i % 2 = 0 THEN "user" ELSE "assistant"
             /\ \A i, j \in 2..Len(h) : i < j => h[i].run <= h[j].run

\* C3: every run emits exactly one message over its whole execution: it
\* makes exactly one ws.send call, when it ends, with the audio if all steps
\* succeeded and with an error message otherwise, and none while in flight.
\* That one message reaches the client when the channel is open at that
\* moment (on a closed channel the send is a no-op, see C10), and nothing
\* else reaches the client: it has received the acknowledgement plus one
\* message per run that ended on an open channel.
C3_OneSendDeliveredIfOpen ==
    /\ \A r \in RunIds :
        /\ InFlight(r) => runs[r].sends = 0 /\ runs[r].delivered = <<>>
        /\ Done(r) => runs[r].sends = 1
        /\ Done(r) /\ ~runs[r].openAtEmit => runs[r].delivered = <<>>
        /\ Succeeded(r) /\ runs[r].openAtEmit => runs[r].delivered = <<AudioMsg>>
        /\ Failed(r) /\ runs[r].openAtEmit =>
               /\ Len(runs[r].delivered) = 1
               /\ runs[r].delivered[1].type = "error"
    /\ \A c \in Conns :
        connState[c] # "new" =>
            Len(outbox[c]) = 1 + Cardinality({r \in RunsOf(c) : runs[r].delivered # <<>>})
C3_Witness ==
    \E r1, r2 \in RunIds :
        /\ Succeeded(r1) /\ runs[r1].delivered = <<AudioMsg>>
        /\ Failed(r2) /\ ~runs[r2].openAtEmit /\ runs[r2].failedAt = "chat"

\* C4: when a run fails at transcoding or at transcription, the history of
\* its session at the moment the error is emitted equals the history at the
\* moment the run started, and the run has made no chat-completion call and
\* no speech-synthesis call.
C4_EarlyFailureKeepsHistory ==
    [][\A r \in RunIds :
          (Returns(r, "transcode") \/ Returns(r, "transcribe")) =>
              /\ conversationHistory'[runs[r].conn] = runs[r].histAtStart
              /\ runs'[r].chatCalls = 0
              /\ runs'[r].speechCalls = 0]_vars

\* C5: a run that failed at chat completion has left its user turn in the
\* history and added no assistant turn; a run that failed at speech
\* synthesis has left its user turn and its assistant turn in the history
\* and no audio message was emitted for it.
C5_NoRollback ==
    \A r \in RunIds :
        LET c == runs[r].conn
        IN /\ (Done(r) /\ runs[r].failedAt = "chat") =>
                  /\ Cardinality(TurnsBy(c, r, "user")) = 1
                  /\ TurnsBy(c, r, "assistant") = {}
           /\ (Done(r) /\ runs[r].failedAt = "speech") =>
                  /\ Cardinality(TurnsBy(c, r, "user")) = 1
                  /\ Cardinality(TurnsBy(c, r, "assistant")) = 1
                  /\ \A i \in 1..Len(runs[r].delivered) : runs[r].delivered[i] # AudioMsg
C5_Witness ==
    \E r1, r2 \in RunIds :
        /\ Done(r1) /\ runs[r1].failedAt = "chat" /\ runs[r1].openAtEmit
        /\ Done(r2) /\ runs[r2].failedAt = "speech" /\ runs[r2].openAtEmit

\* C6: a run whose transcript is empty or whitespace-only appends no turn
\* and makes neither a chat-completion call nor a speech-synthesis call.
C6_BlankTranscriptIsNoOp ==
    \A r \in RunIds :
        (runs[r].pc \in {"chat", "speech"} /\ IsBlank(runs[r].text)) =>
            /\ TurnsBy(runs[r].conn, r, "user") = {}
            /\ TurnsBy(runs[r].conn, r, "assistant") = {}
            /\ runs[r].chatCalls = 0
            /\ runs[r].speechCalls = 0

\* C7: after the close event of a session its registry entry is absent and
\* its timer is cleared, and once every opened connection has closed the
\* registry is as large as before any of them opened (empty).
C7_CloseDeregisters ==
    /\ \A c \in Conns :
          connState[c] = "closed" =>
              /\ ~pingInterval[c]
              /\ ~(/\ connectionId[c] \in DOMAIN activeConnections
                   /\ activeConnections[connectionId[c]] = c)
    /\ (\A c \in Conns : connState[c] # "open") => DOMAIN activeConnections = {}
C7_Witness ==
    /\ \A c \in Conns : connState[c] = "closed"
    /\ \E r \in RunIds : InFlight(r)
    /\ connectionId[1] = connectionId[2]

\* C8: a failing run does not take the session or the process down: the
\* step in which a run fails (at the temp-file write, transcoding,
\* transcription, cleanup, chat completion or synthesis) leaves the process
\* running and the session's channel, registry entry and timer as they were.
C8_FailureDoesNotEscape ==
    [][\A r \in 1..MaxRuns :
          (\E step \in FailureSteps : Returns(r, step)) =>
              /\ ~crashed'
              /\ connState' = connState
              /\ activeConnections' = activeConnections
              /\ pingInterval' = pingInterval]_vars
\* a run that started after a failed run of its session had returned has
\* gone through the whole pipeline and delivered its audio
C8_Witness ==
    \E r \in RunIds :
        /\ runs[r].afterFailure
        /\ Succeeded(r)
        /\ runs[r].delivered = <<AudioMsg>>
        /\ runs[r].chatCalls = 1 /\ runs[r].speechCalls = 1

\* C9: two runs that failed at different steps never deliver the same error
\* message: the client can tell from the message which step failed.
C9_DistinguishableKinds ==
    \A r1, r2 \in RunIds :
        (/\ Failed(r1) /\ Failed(r2)
         /\ runs[r1].failedAt # runs[r2].failedAt
         /\ runs[r1].delivered # <<>> /\ runs[r2].delivered # <<>>) =>
            runs[r1].delivered[1] # runs[r2].delivered[1]

\* one resumption of run r
Resume(r) == TranscodeDone(r) \/ TranscribeDone(r) \/ ChatDone(r) \/ SpeechDone(r)

\* C10: a close while a run is in flight does not abort the run: the close
\* step leaves every run where it was and its next resumption stays enabled,
\* and a run that ends on a closed channel has made the external calls of
\* every step it passed; its final ws.send delivers nothing, raises nothing
\* (the process keeps running) and is the only ws.send call of the run.
C10_EmitOnClosedIsNoOp ==
    /\ [](\A r \in RunIds :
             (InFlight(r) /\ ~IsOpen(runs[r].conn) /\ ~crashed) => ENABLED Resume(r))
    /\ [][/\ (connState' # connState => runs' = runs)
          /\ \A r \in RunIds :
                (InFlight(r) /\ ~IsOpen(runs[r].conn) /\ runs'[r].pc = "done") =>
                    /\ outbox' = outbox
                    /\ ~crashed'
                    /\ runs'[r].sends = 1
                    /\ runs'[r].delivered = <<>>
                    /\ (runs'[r].failedAt \in {"none", "speech"} =>
                            runs'[r].chatCalls = 1 /\ runs'[r].speechCalls = 1)]_vars
C10_Witness ==
    \E r \in RunIds :
        /\ Succeeded(r)
        /\ ~runs[r].openAtEmit
        /\ runs[r].sends = 1 /\ runs[r].delivered = <<>>
        /\ runs[r].chatCalls = 1 /\ runs[r].speechCalls = 1
        /\ Len(outbox[runs[r].conn]) = 1

\* C12: the step in which a connection opens registers the session, sets its
\* history to exactly the system turn, arms its timer and emits the
\* acknowledgement; the acknowledgement is the first message the client
\* receives and no later message of the session is an acknowledgement.
C12_OpenAcknowledgedOnce ==
    /\ [](\A c \in Conns :
             connState[c] # "new" =>
                 /\ Len(outbox[c]) >= 1
                 /\ outbox[c][1] = ConnectedMsg
                 /\ \A i \in 2..Len(outbox[c]) : outbox[c][i] # ConnectedMsg)
    /\ [][\A c \in Conns :
             (connState[c] = "new" /\ connState'[c] # "new") =>
                 /\ connectionId'[c] \in DOMAIN activeConnections'
                 /\ activeConnections'[connectionId'[c]] = c
                 /\ conversationHistory'[c] = <<SystemTurn>>
                 /\ pingInterval'[c]
                 /\ outbox'[c] = <<ConnectedMsg>>]_vars
C12_Witness ==
    \E c \in Conns :
        /\ connState[c] = "closed"
        /\ Len(outbox[c]) = 3
        /\ outbox[c][1] = ConnectedMsg

\* C13: in every reachable state the registry holds exactly one entry per
\* connection that has opened and not yet closed: each open connection is
\* the value of its own connectionId and the registry has as many entries as
\* there are open connections.
C13_RegistryTracksOpen ==
    /\ Cardinality(DOMAIN activeConnections) = Cardinality({c \in Conns : IsOpen(c)})
    /\ \A c \in Conns :
          IsOpen(c) => /\ connectionId[c] \in DOMAIN activeConnections
                       /\ activeConnections[connectionId[c]] = c

\* C15: for two runs of one session, every turn pushed by the run of the
\* earlier chunk precedes every turn pushed by the run of the later chunk,
\* and within a run the user turn precedes the assistant turn.
C15_TurnsInRunOrder ==
    \A c \in Conns :
        LET h == conversationHistory[c]
        IN \A i, j \in 2..Len(h) :
              /\ (h[i].run < h[j].run => i < j)
              /\ (h[i].run = h[j].run /\ h[i].role = "user" /\ h[j].role = "assistant"
                      => i < j)

\* C16: runs do not interfere through the temporary files: the audio a run
\* sends to transcription is the chunk that started it, and no run fails
\* because its temporary files were overwritten or removed by another run.
C16_RunsDoNotShareFiles ==
    \A r \in RunIds :
        /\ runs[r].pc = "transcribe" => runs[r].heard = r
        /\ runs[r].pc = "transcode" =>
               /\ Exists(WebmPath(runs[r].webm))
               /\ files[WebmPath(runs[r].webm)] = r
        /\ runs[r].failedAt # "cleanup"

\* C17: when a run ends, with the audio reply or with an error at any step,
\* neither its temporary webm file nor its temporary wav file exists.
C17_TempFilesRemoved ==
    [][\A r \in RunIds :
          (InFlight(r) /\ runs'[r].pc = "done") =>
              /\ WebmPath(runs[r].webm) \notin DOMAIN files'
              /\ WavPath(runs[r].wav) \notin DOMAIN files']_vars

\* s is a prefix of t
IsPrefix(s, t) == Len(s) <= Len(t) /\ \A i \in 1..Len(s) : s[i] = t[i]

\* C20: in every reachable state of a session the first turn of its history
\* is the system turn and no later turn has role system, and the history
\* only grows at its end: every step leaves the old history a prefix of the
\* new one.
C20_HistoryAppendOnly ==
    /\ [](\A c \in Conns :
             connState[c] # "new" =>
                 /\ Len(conversationHistory[c]) >= 1
                 /\ conversationHistory[c][1] = SystemTurn
                 /\ \A i \in 2..Len(conversationHistory[c]) :
                        conversationHistory[c][i].role # "system")
    /\ [][\A c \in Conns :
             connState[c] # "new" =>
                 IsPrefix(conversationHistory[c], conversationHistory'[c])]_vars
C20_Witness ==
    \E c \in Conns :
        /\ Len(conversationHistory[c]) = 5
        /\ \E r \in RunsOf(c) : Failed(r)

\* the handler ignored the message that started r: it returned at once, wrote
\* no file, called no engine, pushed no turn and sent nothing
Ignored(r) ==
    /\ runs[r].pc = "done"
    /\ runs[r].failedAt = "none"
    /\ runs[r].sends = 0
    /\ runs[r].chatCalls = 0
    /\ runs[r].speechCalls = 0
    /\ \A p \in DOMAIN files : files[p] # r
    /\ \A i \in 1..Len(conversationHistory[runs[r].conn]) :
           conversationHistory[runs[r].conn][i].run # r

\* C11: a client message that is a text frame is ignored: the handler writes
\* no temporary file, calls no engine, leaves the history as it is and sends
\* nothing.
C11_TextFrameIgnored ==
    \A r \in RunIds : runs[r].frame = "text" => Ignored(r)

\* C19: a binary message of zero bytes is a silent no-op: nothing is
\* transcoded, no engine is called, nothing is sent and the history is
\* unchanged.
C19_EmptyChunkIgnored ==
    \A r \in RunIds : runs[r].frame = "empty" => Ignored(r)

\* the session of c is torn down: no registry entry under its id, timer cleared
TornDown(c) ==
    /\ connectionId[c] \notin DOMAIN activeConnections
    /\ ~pingInterval[c]

\* C18 as stated: once the error event of an open session has been handled,
\* its registry entry is removed and its timer is cleared, without waiting
\* for a close event.
C18_ErrorTearsDown ==
    \A c \in Conns : connState[c] = "closing" => TornDown(c)

\* C18: the error handler itself changes neither the registry nor the timer;
\* the close event that follows the error event removes the session's
\* registry entry and clears its timer.
C18_CloseAfterErrorTearsDown ==
    /\ \A c \in Conns :
          (connState[c] = "closing") ~> (connState[c] = "closed" /\ TornDown(c))
    /\ [][\A c \in Conns :
             (connState[c] = "open" /\ connState'[c] = "closing") =>
                 UNCHANGED <<activeConnections, pingInterval>>]_vars
    /\ [][\A c \in Conns :
             (connState[c] = "closing" /\ connState'[c] = "closed") => TornDown(c)']_vars
C18_Witness ==
    \E c \in Conns :
        /\ connState[c] = "closing"
        /\ pingInterval[c]
        /\ connectionId[c] \in DOMAIN activeConnections
        /\ activeConnections[connectionId[c]] = c
        /\ \E r \in RunsOf(c) : InFlight(r)

\* C14: every POST /api/voice request that has been handled has received
\* exactly one response, and none before: 400 with a JSON body and no engine
\* call when no file is attached; the audio body with an audio content type
\* when transcription, completion and synthesis all succeeded; a JSON body
\* with a status outside 200..299 when one of the three engine calls failed.
C14_OneResponsePerRequest ==
    \A q \in RequestIds :
        LET req == requests[q]
        IN /\ req.pc # "done" => req.responses = <<>>
           /\ req.pc = "done" =>
                /\ Len(req.responses) = 1
                /\ ~HasFile(q) => /\ req.responses[1] = NoFileResponse
                                  /\ req.calls = 0
                /\ (HasFile(q) /\ req.resolved = 3) =>
                       /\ req.responses[1].status = 200
                       /\ req.responses[1].type = "audio/mpeg"
                /\ (HasFile(q) /\ req.rejected) =>
                       /\ req.responses[1].type = "application/json"
                       /\ req.responses[1].status \notin 200..299

\* the transcription call of run r has returned a transcript
Transcribed(r) ==
    \/ runs[r].pc \in {"chat", "speech"}
    \/ Done(r) /\ runs[r].failedAt \in {"cleanup", "chat", "speech", "send", "none"}
\* the chat-completion call of run r has returned
ChatReturned(r) ==
    \/ runs[r].pc = "speech"
    \/ Done(r) /\ runs[r].failedAt \in {"speech", "send", "none"}
\* the positions of the turns with role `role` in the history of c
TurnsOfRole(c, role) ==
    {i \in 1..Len(conversationHistory[c]) : conversationHistory[c][i].role = role}

\* C21: every user turn was pushed by a run of the session whose
\* transcription call had returned, every assistant turn by a run whose
\* chat call had returned and whose user turn is earlier in the history;
\* the session has at most as many assistant turns as user turns and at
\* most as many user turns as transcription calls that have returned.
C21_TurnsFollowCompletedSteps ==
    \A c \in Conns :
        LET h == conversationHistory[c]
        IN /\ \A i \in TurnsOfRole(c, "user") :
                  /\ h[i].run \in RunsOf(c)
                  /\ Transcribed(h[i].run)
           /\ \A i \in TurnsOfRole(c, "assistant") :
                  /\ h[i].run \in RunsOf(c)
                  /\ ChatReturned(h[i].run)
                  /\ \E j \in 1..(i - 1) : h[j].role = "user" /\ h[j].run = h[i].run
           /\ Cardinality(TurnsOfRole(c, "assistant")) <= Cardinality(TurnsOfRole(c, "user"))
           /\ Cardinality(TurnsOfRole(c, "user")) <=
                  Cardinality({r \in RunsOf(c) : Transcribed(r)})
C21_Witness ==
    \E c \in Conns : \E r1, r2 \in RunsOf(c) :
        /\ Succeeded(r1)
        /\ Done(r2) /\ runs[r2].failedAt = "chat"
        /\ Cardinality(TurnsOfRole(c, "assistant")) = 1
        /\ Cardinality(TurnsOfRole(c, "user")) = 2

\* C22: the chat call of a run is made with the whole history of its session
\* as it is at the call: it starts with the system turn, ends with the user
\* turn the run has just pushed and leaves no turn out.
C22_ChatGetsWholeHistory ==
    /\ [](\A r \in RunIds :
             runs[r].pc = "chat" =>
                 LET m == runs[r].messages
                 IN /\ Len(m) >= 2
                    /\ m[1] = SystemTurn
                    /\ m[Len(m)] = Turn("user", runs[r].text, r)
                    /\ IsPrefix(m, conversationHistory[runs[r].conn]))
    /\ [][\A r \in RunIds :
             (runs[r].pc = "transcribe" /\ runs'[r].pc = "chat") =>
                 runs'[r].messages = conversationHistory'[runs[r].conn]]_vars
C22_Witness ==
    \E r \in RunIds :
        /\ runs[r].pc = "chat"
        /\ Len(runs[r].messages) = 4
        /\ runs[r].messages[3].role = "assistant"

\* C23: a run whose chat call returned empty content has pushed the fallback
\* string as its assistant turn and has called speech synthesis with that
\* string; no assistant turn of any history has empty content.
C23_FallbackOnEmptyContent ==
    /\ \A c \in Conns : \A i \in TurnsOfRole(c, "assistant") :
           conversationHistory[c][i].content # ""
    /\ \A r \in RunIds :
           (runs[r].pc = "speech" /\ runs[r].reply = "") =>
               /\ runs[r].input = Fallback
               /\ \E i \in 1..Len(conversationHistory[runs[r].conn]) :
                      conversationHistory[runs[r].conn][i] = Turn("assistant", Fallback, r)
C23_Witness ==
    \E r \in RunIds :
        /\ runs[r].pc = "speech"
        /\ runs[r].reply = ""
        /\ runs[r].input = Fallback

\* C25: the history of a session changes only in the step that opens it and
\* in steps of its own runs, and the context of every chat call of a session
\* holds nothing but the system turn and turns pushed by runs of that
\* session.
C25_HistoryNotShared ==
    /\ [][\A c \in Conns :
             conversationHistory'[c] # conversationHistory[c] =>
                 \/ connState[c] = "new" /\ connState'[c] = "open"
                 \/ \E r \in RunsOf(c) : runs'[r] # runs[r]]_vars
    /\ [](\A r \in RunIds :
             runs[r].pc = "chat" =>
                 \A i \in 1..Len(runs[r].messages) :
                     \/ runs[r].messages[i] = SystemTurn
                     \/ /\ runs[r].messages[i].run \in RunsOf(runs[r].conn)
                        /\ runs[r].messages[i].role # "system")
C25_Witness ==
    \E r1, r2 \in RunIds :
        /\ runs[r1].conn # runs[r2].conn
        /\ runs[r1].pc = "chat"
        /\ runs[r2].pc = "chat"
        /\ connectionId[runs[r1].conn] = connectionId[runs[r2].conn]

\* C27: on one session the results of the runs are emitted in the order in
\* which their chunks were received: a run has made its send only if every
\* run of an earlier chunk of the session has made its own.
C27_ResultsInChunkOrder ==
    \A r1, r2 \in RunIds :
        (r1 < r2 /\ runs[r1].conn = runs[r2].conn /\ runs[r2].sends > 0) =>
            runs[r1].sends > 0

\* C28: when a POST /api/voice request that uploaded a file is answered,
\* with the audio or with an error after a failed transcription, completion
\* or synthesis call, its uploaded file is no longer in the uploads
\* directory.
C28_UploadDeletedOnEveryPath ==
    [][\A q \in RequestIds :
          (requests[q].pc # "done" /\ requests'[q].pc = "done") =>
              requests[q].path \notin DOMAIN files']_vars

\* C24: every probe was sent at a timer tick at which the channel was open;
\* once the close handler of a session has run its timer is cleared and no
\* further probe is sent for it.
C24_PingOnlyWhileOpen ==
    /\ [](\A c \in Conns :
             /\ \A i \in 1..Len(pings[c]) : pings[c][i] = "open"
             /\ connState[c] = "closed" => ~pingInterval[c])
    /\ [][\A c \in Conns :
             connState[c] = "closed" =>
                 /\ pings'[c] = pings[c]
                 /\ ~ENABLED PingTick(c)]_vars
C24_Witness ==
    \E c, d \in Conns :
        /\ connState[c] = "closed"
        /\ Len(pings[c]) = 1
        /\ connState[d] = "closing"
        /\ pingInterval[d]
        /\ Len(pings[d]) = 1

\* C26: when the connection of a live call closes while the call is still
\* active, the page eventually has an open connection again, unless the user
\* ends the call first.
C26_ReconnectsOnDrop ==
    (/\ client.isLiveCall
     /\ client.recording
     /\ client.wsRef # 0
     /\ client.sockets[client.wsRef].kind = "live"
     /\ client.sockets[client.wsRef].state = "closed"
     /\ Len(client.sockets) < MaxSockets)
        ~> (~client.isLiveCall \/ SocketOpen(client, client.wsRef))

====
